---- MODULE Spec2Model ----
(***************************************************************************)
(* A model of src/netviz/one_page_report.cpp: the per-packet ingestion of  *)
(* one_page_report (ingest_packet) and the fixed-order render pass         *)
(* (render and the render_pass methods).                                   *)
(*                                                                         *)
(* Lengths of the layout are kept in half units (Scale), so that the       *)
(* factor 1.5 of the top-N rows and the factor 0.25 of the line spacing    *)
(* stay exact in integer arithmetic.                                       *)
(***************************************************************************)
EXTENDS Integers, Sequences, FiniteSets, TLC

\* ------------------------------------------------------------------ bounds
MaxPackets == 2
MaxSec == 2
MaxUsec == 2

\* ------------------------------------------------------- program constants
ETHERTYPE_IP == 2048
ETHERTYPE_IPV6 == 34525
ETHERTYPE_ARP == 2054
\* a link-layer tag that is none of the three the header reports by name
ETHERTYPE_VLAN == 33024

\* sizes of the addresses handed to the address trees
IP4_ADDR_LEN == 4
IP6_ADDR_LEN == 16

\* header sizes the decoders of tcpip.cpp require
IP4_HDR_LEN == 20
IP6_HDR_LEN == 40
TCP_HDR_LEN == 20

\* ------------------------------------------------------------ the packets
\* A packet_info as ingest_packet reads it: the pcap timestamp, the captured
\* length, the ethertype and the network-layer bytes, abstracted to the IP
\* version nibble (ip_data) and their length (ip_datalen).
Timestamps == [tv_sec : 0..MaxSec, tv_usec : 0..MaxUsec]

CapLens == {60, 1500}

EtherTypes == {ETHERTYPE_IP, ETHERTYPE_IPV6, ETHERTYPE_ARP, ETHERTYPE_VLAN}

IpVersions == {4, 6, 0}

IpDataLens == {0, 20, 40, 60}

BasePacket ==
    [ts |-> [tv_sec |-> 1, tv_usec |-> 1], caplen |-> 60,
     ether_type |-> ETHERTYPE_IP, ip_data |-> 4, ip_datalen |-> 40]

\* the packets fed to ingest_packet: the base packet (IPv4 carrying TCP) and
\* every packet that differs from it in its timestamp, in its captured
\* length, in its ethertype, or in its network-layer bytes
Packets ==
    {[BasePacket EXCEPT !.ts = t] : t \in Timestamps}
    \cup {[BasePacket EXCEPT !.caplen = c] : c \in CapLens}
    \cup {[BasePacket EXCEPT !.ether_type = e] : e \in EtherTypes}
    \cup {[BasePacket EXCEPT !.ip_data = v, !.ip_datalen = n] :
            v \in IpVersions, n \in IpDataLens}

\* ------------------------------------------------------------ the decoders
\* tcpip::ip4_from_bytes, ip6_from_bytes, tcp_from_bytes: pure, never throw,
\* success as a boolean.
ip4_from_bytes(ip_data, ip_datalen) ==
    ip_data = 4 /\ ip_datalen >= IP4_HDR_LEN

ip6_from_bytes(ip_data, ip_datalen) ==
    ip_data = 6 /\ ip_datalen >= IP6_HDR_LEN

tcp_from_bytes(payload_len) ==
    payload_len >= TCP_HDR_LEN

\* ------------------------------------------------------------------ state
VARIABLES
    ingested,             \* the packets handed to ingest_packet so far, in order
    packet_count,
    byte_count,
    earliest,
    latest,
    transport_counts,     \* std::map<uint32_t, uint64_t>: a function on its key set
    src_tree,             \* the sizes of the addresses added, in order
    dst_tree,
    bandwidth_histogram,  \* per packet received: 1 with a TCP segment, 0 with a null one
    src_port_histogram,   \* number of segments received
    dst_port_histogram,
    pfall,                \* number of packets received
    calls,                \* the calls the latest ingest_packet made, in order
    cairo_available,      \* CAIRO_PDF_AVAILABLE of the build
    pass_state,           \* how far render() has come
    surface,              \* the cairo surface: none, ok, error, destroyed
    cr,                   \* the cairo context: none, created, destroyed
    end_of_content,       \* the cursor of the render pass, in half units
    visited,              \* the states the render pass went through, in order
    drawn,                \* the blocks and text lines drawn, with their offsets
    render_calls,         \* number of render() calls that returned
    header,               \* what the latest render_header put in its statistics lines
    dual,                 \* what the latest step drawing two histograms did
    args                  \* the arguments of a function applied on its own

ingest_vars ==
    <<ingested, packet_count, byte_count, earliest, latest, transport_counts,
      src_tree, dst_tree, bandwidth_histogram, src_port_histogram,
      dst_port_histogram, pfall, calls>>

render_vars ==
    <<pass_state, surface, cr, end_of_content, visited, drawn, render_calls,
      header, dual>>

\* what no step of ingest_packet or render() changes
fixed_vars == <<cairo_available, args>>

vars == <<ingest_vars, render_vars, fixed_vars>>

\* ------------------------------------------------------------ ingest_packet
\* the minimum of the timestamps in place of the first one
earliest_update_min(e, ts) ==
    IF e.tv_sec = 0
       \/ ts.tv_sec < e.tv_sec
       \/ (ts.tv_sec = e.tv_sec /\ ts.tv_usec < e.tv_usec)
    THEN ts ELSE e

\* if(earliest.tv_sec == 0) earliest = pi.ts;
earliest_update(e, ts) ==
    IF e.tv_sec = 0 THEN ts ELSE e

\* a chronological "later than" in place of the conjunction
latest_update_chronological(l, ts) ==
    IF ts.tv_sec > l.tv_sec \/ (ts.tv_sec = l.tv_sec /\ ts.tv_usec > l.tv_usec)
    THEN ts ELSE l

\* each component raised on its own
latest_update_componentwise(l, ts) ==
    [tv_sec |-> IF ts.tv_sec > l.tv_sec THEN ts.tv_sec ELSE l.tv_sec,
     tv_usec |-> IF ts.tv_usec > l.tv_usec THEN ts.tv_usec ELSE l.tv_usec]

\* if(pi.ts.tv_sec > latest.tv_sec && pi.ts.tv_usec > latest.tv_usec) latest = pi.ts;
latest_update(l, ts) ==
    IF ts.tv_sec > l.tv_sec /\ ts.tv_usec > l.tv_usec THEN ts ELSE l

\* packet_count++ (the uint64_t wrap is out of reach of the bounds)
packet_count_update(n) ==
    n + 1

\* an assignment in place of the +=
byte_count_update_assign(n, caplen) ==
    caplen

\* byte_count += pi.pcap_hdr->caplen
byte_count_update(n, caplen) ==
    n + caplen

\* std::map::operator[]: a key that is absent is inserted with the value 0
map_index(m, k) ==
    IF k \in DOMAIN m THEN m ELSE m @@ (k :> 0)

\* the tag is set to 1 in place of being incremented
transport_counts_update_set(m, k) ==
    [map_index(m, k) EXCEPT ![k] = 1]

\* transport_counts[pi.ether_type()]++
transport_counts_update(m, k) ==
    [map_index(m, k) EXCEPT ![k] = @ + 1]

\* the if / else if of the IPv4 and IPv6 decodes
has_ip4_dgram(pi) ==
    ip4_from_bytes(pi.ip_data, pi.ip_datalen)

has_ip6_dgram(pi) ==
    ~ip4_from_bytes(pi.ip_data, pi.ip_datalen)
    /\ ip6_from_bytes(pi.ip_data, pi.ip_datalen)

\* ip_payload_len: 0 unless one of the decodes set it
ip_payload_len(pi) ==
    IF has_ip4_dgram(pi) THEN pi.ip_datalen - IP4_HDR_LEN
    ELSE IF has_ip6_dgram(pi) THEN pi.ip_datalen - IP6_HDR_LEN
    ELSE 0

\* if(tcpip::tcp_from_bytes(ip_payload, ip_payload_len, tcp)) has_tcp_seg = true;
has_tcp_seg(pi) ==
    tcp_from_bytes(ip_payload_len(pi))

Call(to, arg) == [to |-> to, arg |-> arg]

\* the decoder calls of one ingest_packet, in order, each with the length of
\* the bytes it is given
decoder_calls(pi) ==
    <<Call("ip4_from_bytes", pi.ip_datalen)>>
    \o (IF ip4_from_bytes(pi.ip_data, pi.ip_datalen) THEN <<>>
        ELSE <<Call("ip6_from_bytes", pi.ip_datalen)>>)
    \o <<Call("tcp_from_bytes", ip_payload_len(pi))>>

\* the IPv4 branch tested first and the IPv6 branch adding 4 bytes as well
tree_calls_ip4_size(pi) ==
    IF has_ip4_dgram(pi) \/ has_ip6_dgram(pi)
    THEN <<Call("src_tree", IP4_ADDR_LEN), Call("dst_tree", IP4_ADDR_LEN)>>
    ELSE <<>>

\* src_tree.add / dst_tree.add: IPv6 addresses, else IPv4 addresses, else nothing
tree_calls(pi) ==
    IF has_ip6_dgram(pi)
    THEN <<Call("src_tree", IP6_ADDR_LEN), Call("dst_tree", IP6_ADDR_LEN)>>
    ELSE IF has_ip4_dgram(pi)
    THEN <<Call("src_tree", IP4_ADDR_LEN), Call("dst_tree", IP4_ADDR_LEN)>>
    ELSE <<>>

\* the segment is forwarded without the test of has_tcp_seg
port_calls_unguarded(pi) ==
    <<Call("src_port_histogram", 1), Call("dst_port_histogram", 1)>>

\* src_port_histogram.ingest_packet(tcp); dst_port_histogram.ingest_packet(tcp);
port_calls(pi) ==
    IF has_tcp_seg(pi)
    THEN <<Call("src_port_histogram", 1), Call("dst_port_histogram", 1)>>
    ELSE <<>>

\* the waterfall fed before the port histograms
children_calls_pfall_early(pi) ==
    tree_calls(pi)
    \o <<Call("bandwidth_histogram", IF has_tcp_seg(pi) THEN 1 ELSE 0)>>
    \o <<Call("pfall", 0)>>
    \o port_calls(pi)

\* "pass relevant data structures to children": the calls in program order
children_calls(pi) ==
    tree_calls(pi)
    \o <<Call("bandwidth_histogram", IF has_tcp_seg(pi) THEN 1 ELSE 0)>>
    \o port_calls(pi)
    \o <<Call("pfall", 0)>>

\* the arguments of the calls made to one child, in order
ArgsTo(cs, child) ==
    LET picked == SelectSeq(cs, LAMBDA c : c.to = child)
    IN  [i \in 1..Len(picked) |-> picked[i].arg]

ingest_packet(pi) ==
    /\ pass_state = "NoPass"
    /\ render_calls = 0
    /\ Len(ingested) < MaxPackets
    /\ args.fn = "none"
    /\ ingested' = Append(ingested, pi)
    /\ earliest' = earliest_update(earliest, pi.ts)
    /\ latest' = latest_update(latest, pi.ts)
    /\ packet_count' = packet_count_update(packet_count)
    /\ byte_count' = byte_count_update(byte_count, pi.caplen)
    /\ transport_counts' = transport_counts_update(transport_counts, pi.ether_type)
    /\ LET cs == children_calls(pi)
       IN  /\ src_tree' = src_tree \o ArgsTo(cs, "src_tree")
           /\ dst_tree' = dst_tree \o ArgsTo(cs, "dst_tree")
           /\ bandwidth_histogram' =
                  bandwidth_histogram \o ArgsTo(cs, "bandwidth_histogram")
           /\ src_port_histogram' =
                  src_port_histogram + Len(ArgsTo(cs, "src_port_histogram"))
           /\ dst_port_histogram' =
                  dst_port_histogram + Len(ArgsTo(cs, "dst_port_histogram"))
           /\ pfall' = pfall + Len(ArgsTo(cs, "pfall"))
           /\ calls' = decoder_calls(pi) \o cs
    /\ UNCHANGED <<render_vars, fixed_vars>>

\* ------------------------------------------------------------ the layout
\* one unit of the page is Scale half units
Scale == 2

header_font_size == 8
top_list_font_size == 8
histogram_show_top_n_text == 3
\* line_space_factor = 0.25, kept as its inverse
line_space_divisor == 4
histogram_pad_factor_y == 1
bandwidth_histogram_height == 100
address_histogram_height == 100

\* the height cairo_text_extents measures for a line of text on a good surface
TextHeight == 6
\* the magnitude of the height read from a cairo_text_extents_t that nothing
\* has written
JunkHeight == 9

Max(a, b) == IF a >= b THEN a ELSE b

\* cairo_text_extents on a surface in an error state leaves the extents 0
TextHeights(sf) == IF sf = "ok" THEN {TextHeight} ELSE {0}

\* an uninitialized double: of either sign
JunkHeights == {0 - JunkHeight, JunkHeight}

\* what the text lines of the header measure, one height per line
HeaderMeasures(sf) == [1..6 -> TextHeights(sf)]

\* what one render_dual_histograms_top_n measures: per row the height of the
\* left text, of the right text, and the contents of the two extents structs
\* as the row finds them
RowMeasures(sf) ==
    {[ii \in 1..histogram_show_top_n_text |->
        [text_left |-> h, text_right |-> h, junk_left |-> j, junk_right |-> j]] :
     h \in TextHeights(sf), j \in JunkHeights}

\* bounds.height of the left and of the right histogram after the render call
\* of the collaborator: the height the histogram was rendered with
HistHeights ==
    {[left |-> address_histogram_height, right |-> address_histogram_height]}

Drawn(what, y) == [what |-> what, y |-> y]

\* double title_line_space = report.header_font_size * line_space_factor;
title_line_space ==
    (header_font_size * Scale) \div line_space_divisor

\* render_text then render_text_line, on the pair <<cursor, drawn>>: the text is
\* shown at the cursor plus its height, the cursor moves by height + line space
render_text_line(st, what, h, line_space) ==
    <<st[1] + Scale * h + line_space,
      Append(st[2], Drawn(what, st[1] + Scale * h))>>

\* the six text lines of render_header and its two trailing pads
header_layout(eoc, dr, hs) ==
    LET ls == title_line_space
        s1 == render_text_line(<<eoc, dr>>, "title", hs[1], ls)
        s2 == render_text_line(s1, "input", hs[2], ls)
        s3 == render_text_line(s2, "generated", hs[3], ls)
        s4 == <<s3[1] + ls * 4, s3[2]>>
        s5 == render_text_line(s4, "date_range", hs[4], ls)
        s6 == render_text_line(s5, "packets", hs[5], ls)
        s7 == render_text_line(s6, "transports", hs[6], ls)
    IN  <<s7[1] + ls * 4, s7[2]>>

\* report.transport_counts[ETHERTYPE_IP], [ETHERTYPE_IPV6], [ETHERTYPE_ARP]:
\* operator[] of the non-const map, as the protocol breakdown reads it
header_transport_reads(m) ==
    map_index(map_index(map_index(m, ETHERTYPE_IP), ETHERTYPE_IPV6), ETHERTYPE_ARP)

\* ---------------------------------------------------- the size of the capture
\* A uint64_t is kept as <<e18, e9, e0>>, standing for
\* e18 * 10^18 + e9 * 10^9 + e0 with e9, e0 < 10^9.
Billion == 1000000000

Wide(n) == <<0, n \div Billion, n % Billion>>

WideLess(a, b) ==
    \/ a[1] < b[1]
    \/ a[1] = b[1] /\ a[2] < b[2]
    \/ a[1] = b[1] /\ a[2] = b[2] /\ a[3] < b[3]

UINT64_MAX == <<18, 446744073, 709551615>>

\* std::vector<std::string> one_page_report::build_size_suffixes()
size_suffixes == <<"B", "KB", "MB", "GB", "TB", "PB", "EB">>

\* log(report.byte_count) / log(1000) in doubles: the least byte_count from
\* which the quotient is at least k, for k = 1..6.  Up to 10^12 that is
\* 1000^k.  The doubles next to 5 and 6 lie 8.9e-16 apart, and the quotient of
\* a byte_count within 4 of 10^15, or within 4928 of 10^18, is the double 5.0,
\* or 6.0, already.
log_quotient_reaches ==
    <<<<0, 0, 1000>>, <<0, 0, 1000000>>, <<0, 1, 0>>, <<0, 1000, 0>>,
      <<0, 999999, 999999996>>, <<0, 999999999, 999995072>>>>

\* (uint64_t) of the quotient -inf that log(0) gives: the value is out of the
\* range of the type and the conversion undefined; the conversion instruction
\* saturates to 0 or gives the "indefinite" value 2^63
CastOfNegInf == {<<0, 0, 0>>, <<9, 223372036, 854775808>>}

\* uint64_t size_log_1000 = (uint64_t) (log(report.byte_count) / log(1000));
size_log_1000(wide_count, cast) ==
    IF wide_count = <<0, 0, 0>> THEN cast
    ELSE <<0, 0, Cardinality({k \in 1..Len(log_quotient_reaches) :
                                ~WideLess(wide_count, log_quotient_reaches[k])})>>

\* if(size_log_1000 >= size_suffixes.size()) size_log_1000 = 0;
suffix_index(raw) ==
    IF ~WideLess(raw, <<0, 0, Len(size_suffixes)>>) THEN 0 ELSE raw[3]

\* ---------------------------------------------------- the protocol breakdown
\* the loop over report.transport_counts that sums the values
RECURSIVE transport_total(_)
transport_total(m) ==
    IF DOMAIN m = {} THEN 0
    ELSE LET k == CHOOSE x \in DOMAIN m : TRUE
         IN  m[k] + transport_total([x \in DOMAIN m \ {k} |-> m[x]])

\* a share printed with %.2f%%: the double num / den * 100.0, kept as the
\* fraction; it is the NaN that 0.0 / 0.0 gives when den is 0 (num is then 0 as
\* well, being part of den)
Share(num, den) == [nan |-> den = 0, num |-> num, den |-> den]

\* the share of "Other" computed as the complement of IPv4 and IPv6 alone
header_shares_arp_forgotten(m) ==
    LET total == transport_total(m)
        r == header_transport_reads(m)
        named == r[ETHERTYPE_IP] + r[ETHERTYPE_IPV6]
    IN  [ipv4 |-> Share(r[ETHERTYPE_IP], total),
         ipv6 |-> Share(r[ETHERTYPE_IPV6], total),
         arp |-> Share(r[ETHERTYPE_ARP], total),
         other |-> Share(total - named, total)]

\* the four arguments of the "Transports:" line; (1.0 - named / total) * 100.0
\* is kept as the fraction (total - named) / total
header_shares(m) ==
    LET total == transport_total(m)
        r == header_transport_reads(m)
        named == r[ETHERTYPE_IP] + r[ETHERTYPE_IPV6] + r[ETHERTYPE_ARP]
    IN  [ipv4 |-> Share(r[ETHERTYPE_IP], total),
         ipv6 |-> Share(r[ETHERTYPE_IPV6], total),
         arp |-> Share(r[ETHERTYPE_ARP], total),
         other |-> Share(total - named, total)]

NoShares ==
    [ipv4 |-> Share(0, 1), ipv6 |-> Share(0, 1), arp |-> Share(0, 1),
     other |-> Share(0, 1)]

\* what the header shows of the aggregate, before render_header has run
NoHeader ==
    [rendered |-> FALSE, suffix_index |-> 0, suffix |-> "B",
     transport_total |-> 0, shares |-> NoShares]

\* what the "Packets analyzed:" and "Transports:" lines show
header_stats(wide_count, cast, m) ==
    LET index == suffix_index(size_log_1000(wide_count, cast))
    IN  [rendered |-> TRUE, suffix_index |-> index,
         suffix |-> size_suffixes[index + 1],
         transport_total |-> transport_total(m), shares |-> header_shares(m)]

\* ------------------------------------------------------- the top-N lists
\* count_histogram::get_top_list() and get_count_sum() of a histogram that
\* received n insertions: the model has one address and one port, so all of
\* them fall on one entry
get_top_list(n) == IF n = 0 THEN <<>> ELSE <<n>>

get_count_sum(n) == n

\* 2^e modulo m, by squaring
RECURSIVE pow2_mod(_, _)
pow2_mod(e, m) ==
    IF e = 0 THEN 1 % m
    ELSE LET x == pow2_mod(e \div 2, m)
         IN  IF e % 2 = 0 THEN (x * x) % m ELSE (2 * x * x) % m

\* the least a from a0 on with c * 2^a >= s
RECURSIVE binade(_, _, _)
binade(c, s, a0) == IF c * 2^a0 >= s THEN a0 ELSE binade(c, s, a0 + 1)

\* the greatest j from j0 on with 2^j <= k
RECURSIVE ilog2(_, _)
ilog2(k, j0) == IF 2^(j0 + 1) > k THEN j0 ELSE ilog2(k, j0 + 1)

\* (uint8_t) (((double) pair.second / (double) sum) * 100.0) for
\* 0 <= count <= sum, sum > 0, in IEEE doubles (53 significant bits, round to
\* nearest even).  With 2^-a <= count/sum < 2^(1-a) the quotient is a multiple
\* of 2^-E, E = 52 + a, and R = count * 2^E mod sum is what the division
\* leaves: the quotient is rounded down, by R / (sum * 2^E), when 0 < 2R < sum
\* (a tie needs a divisor of 2^53 or more).  When 100 * count / sum is not a
\* whole number it is at least 1/sum away from one, which the two roundings do
\* not bridge, and the truncation is its floor.  When it is a whole number k
\* and the quotient was rounded down, the product is k - 100R / (sum * 2^E),
\* and it is rounded to a double below k when that distance is more than half
\* the distance from k to the double before it: 2^(j-53), or 2^(j-54) for
\* k = 2^j, with 2^j <= k < 2^(j+1).  The truncation is then k - 1.
double_percentage(count, sum) ==
    LET k == (100 * count) \div sum
    IN  IF count = 0 \/ (100 * count) % sum # 0 THEN k
        ELSE LET a == binade(count, sum, 0)
                 R == (count * pow2_mod(52 + a, sum)) % sum
                 j == ilog2(k, 0)
                 half == IF 2^j = k THEN 400 ELSE 200
             IN  IF R > 0 /\ 2 * R < sum /\ half * R > sum * 2^(a + j)
                 THEN k - 1 ELSE k

\* uint8_t percentage = 0; if(sum > 0) percentage = ...
percentage(count, sum) ==
    IF sum > 0 THEN double_percentage(count, sum) ELSE 0

\* one side of one row: the entry shown, if the list has one for the row
top_n_entry(list, sum, ii, h) ==
    IF Len(list) > ii
    THEN [present |-> TRUE, rank |-> ii + 1, count |-> list[ii + 1],
          percentage |-> percentage(list[ii + 1], sum), height |-> h]
    ELSE [present |-> FALSE, rank |-> 0, count |-> 0, percentage |-> 0,
          height |-> 0]

\* one row of render_dual_histograms_top_n, on <<cursor, drawn, rows>>; a side
\* is a top list with the sum of its histogram
top_n_row(st, ii, left, right, m) ==
    LET left_entry == top_n_entry(left.list, left.sum, ii, m.text_left)
        right_entry == top_n_entry(right.list, right.sum, ii, m.text_right)
        d1 == IF left_entry.present
              THEN Append(st[2], Drawn("top_left", st[1] + Scale * m.text_left))
              ELSE st[2]
        d2 == IF right_entry.present
              THEN Append(d1, Drawn("top_right", st[1] + Scale * m.text_right))
              ELSE d1
        \* both render_text calls are handed left_extents
        left_extents == IF right_entry.present THEN m.text_right
                        ELSE IF left_entry.present THEN m.text_left
                        ELSE m.junk_left
        \* right_extents is never written
        right_extents == m.junk_right
        after == st[1] + (3 * Scale * Max(left_extents, right_extents)) \div 2
    IN  <<after, d2,
          Append(st[3], [ii |-> ii, left |-> left_entry, right |-> right_entry,
                         before |-> st[1], after |-> after])>>

RECURSIVE top_n_rows(_, _, _, _, _)
top_n_rows(st, ii, left, right, rows) ==
    IF ii >= histogram_show_top_n_text THEN st
    ELSE top_n_rows(top_n_row(st, ii, left, right, rows[ii + 1]),
                    ii + 1, left, right, rows)

render_dual_histograms_top_n(st, left, right, left_h, right_h, rows) ==
    LET after == top_n_rows(st, 0, left, right, rows)
    IN  <<after[1] + Max(left_h, right_h) * Scale * (histogram_pad_factor_y - 1),
          after[2], after[3]>>

\* what a step that draws two histograms side by side did, before any has run
NoDual ==
    [step |-> "none", entry |-> 0, left_h |-> 0, right_h |-> 0, below |-> 0,
     rows |-> <<>>, exit |-> 0]

\* the cursor moved by the sum of the two heights
cursor_below_histograms_sum(eoc, left_h, right_h) ==
    eoc + Scale * (left_h + right_h)

\* end_of_content += max(left_bounds.height, right_bounds.height);
cursor_below_histograms(eoc, left_h, right_h) ==
    eoc + Scale * Max(left_h, right_h)

\* two histograms side by side at the cursor, then their top-N lists: the
\* cursor, what is drawn, and the record of the step
dual_histograms(eoc, dr, left_name, right_name, left, right, hh, rows) ==
    LET d == dr \o <<Drawn(left_name, eoc), Drawn(right_name, eoc)>>
        below == cursor_below_histograms(eoc, hh.left, hh.right)
        st == render_dual_histograms_top_n(<<below, d, <<>>>>, left, right,
                                           hh.left, hh.right, rows)
    IN  <<st[1], st[2],
          [step |-> left_name, entry |-> eoc, left_h |-> hh.left,
           right_h |-> hh.right, below |-> below, rows |-> st[3],
           exit |-> st[1]]>>

\* a top list with the sum of its histogram, of a histogram of n insertions
TopOf(n) == [list |-> get_top_list(n), sum |-> get_count_sum(n)]

\* ---------------------------------------------- the functions on their own
\* The arguments of a function of the layout applied on its own, over ranges
\* wider than the packets of a bounded capture reach: the size formatting of
\* render_header for a byte_count, and the pair of histograms with their
\* top-N lists for two top lists and the measures of the backend.
ByteCounts ==
    {w \in {<<a, b, c>> :
              a \in {0, 1, 18},
              b \in {0, 1, 1000, 999999, 446744073, 999999999},
              c \in {0, 1, 999, 1000, 1500, 999999, 1000000, 709551615,
                     999995071, 999995072, 999999995, 999999996, 999999999}} :
        ~WideLess(UINT64_MAX, w)}

TopSides ==
    {[list |-> <<>>, sum |-> 0],
     [list |-> <<2, 1>>, sum |-> 3],
     [list |-> <<57, 29>>, sum |-> 100],
     [list |-> <<1, 1, 1, 1>>, sum |-> 5]}

MeasuredHeights ==
    {[left |-> l, right |-> r] : l, r \in {65, 80, address_histogram_height}}

EntryCursors == {0, Scale * bandwidth_histogram_height}

RowMeasuresWide ==
    {[ii \in 1..histogram_show_top_n_text |->
        [text_left |-> hl, text_right |-> hr, junk_left |-> jl, junk_right |-> jr]] :
     hl \in {TextHeight, TextHeight + 2}, hr \in {TextHeight, TextHeight + 2},
     jl \in JunkHeights, jr \in JunkHeights}

\* no function is applied on its own: ingest_packet and render() run
NoArgs == [fn |-> "none", applied |-> FALSE]

SizeSuffixArgs ==
    {[fn |-> "size_suffix", applied |-> FALSE, byte_count |-> w, cast |-> k] :
       w \in ByteCounts, k \in CastOfNegInf}

DualHistogramsArgs ==
    {[fn |-> "dual_histograms", applied |-> FALSE, entry |-> e, left |-> l,
      right |-> r, heights |-> hh, rows |-> rows] :
       e \in EntryCursors, l \in TopSides, r \in TopSides,
       hh \in MeasuredHeights, rows \in RowMeasuresWide}

FnArgs == SizeSuffixArgs \cup DualHistogramsArgs

\* ------------------------------------------------------------------ render
\* render_map left out of the sequence
next_pass_state_no_map(s) ==
    CASE s = "NotStarted" -> "HeaderRendered"
      [] s = "HeaderRendered" -> "BandwidthRendered"
      [] s = "BandwidthRendered" -> "WaterfallRendered"
      [] s = "WaterfallRendered" -> "AddressHistogramsRendered"
      [] s = "AddressHistogramsRendered" -> "PortHistogramsRendered"
      [] s = "PortHistogramsRendered" -> "Done"
      [] OTHER -> s

\* the next state of the pass after each step of render()
next_pass_state(s) ==
    CASE s = "NotStarted" -> "HeaderRendered"
      [] s = "HeaderRendered" -> "BandwidthRendered"
      [] s = "BandwidthRendered" -> "MapPlaceholder"
      [] s = "MapPlaceholder" -> "WaterfallRendered"
      [] s = "WaterfallRendered" -> "AddressHistogramsRendered"
      [] s = "AddressHistogramsRendered" -> "PortHistogramsRendered"
      [] s = "PortHistogramsRendered" -> "Done"
      [] OTHER -> s

advance_pass ==
    /\ pass_state' = next_pass_state(pass_state)
    /\ visited' = Append(visited, next_pass_state(pass_state))

\* render() of a build without CAIRO_PDF_AVAILABLE: an empty body
render_unavailable ==
    /\ ~cairo_available
    /\ render_calls = 0
    /\ render_calls' = render_calls + 1
    /\ UNCHANGED <<ingest_vars, fixed_vars, pass_state, surface, cr,
                   end_of_content, visited, drawn, header, dual>>

\* cairo_pdf_surface_create, cairo_create, render_pass pass(*this, cr, pad_bounds):
\* the surface comes back good or in an error state, and is not looked at
render_begin(created) ==
    /\ cairo_available
    /\ render_calls = 0
    /\ pass_state = "NoPass"
    /\ args.fn = "none"
    /\ surface' = IF created THEN "ok" ELSE "error"
    /\ cr' = "created"
    /\ pass_state' = "NotStarted"
    /\ visited' = <<"NotStarted">>
    /\ end_of_content' = 0
    /\ drawn' = <<>>
    /\ UNCHANGED <<ingest_vars, fixed_vars, render_calls, header, dual>>

render_header(hs, cast) ==
    /\ pass_state = "NotStarted"
    /\ advance_pass
    /\ LET st == header_layout(end_of_content, drawn, hs)
       IN  /\ end_of_content' = st[1]
           /\ drawn' = st[2]
    /\ header' = header_stats(Wide(byte_count), cast, transport_counts)
    /\ transport_counts' = header_transport_reads(transport_counts)
    /\ UNCHANGED <<ingested, packet_count, byte_count, earliest, latest,
                   src_tree, dst_tree, bandwidth_histogram, src_port_histogram,
                   dst_port_histogram, pfall, calls, fixed_vars, surface,
                   cr, render_calls, dual>>

render_bandwidth_histogram ==
    /\ pass_state = "HeaderRendered"
    /\ advance_pass
    /\ drawn' = Append(drawn, Drawn("bandwidth_histogram", end_of_content))
    /\ end_of_content' = end_of_content
           + Scale * bandwidth_histogram_height * histogram_pad_factor_y
    /\ UNCHANGED <<ingest_vars, fixed_vars, surface, cr, render_calls,
                   header, dual>>

\* a placeholder that reserves the height of a block
render_map_reserving ==
    /\ pass_state = "BandwidthRendered"
    /\ advance_pass
    /\ end_of_content' = end_of_content
           + Scale * bandwidth_histogram_height * histogram_pad_factor_y
    /\ UNCHANGED <<ingest_vars, fixed_vars, surface, cr, render_calls,
                   drawn, header, dual>>

\* void one_page_report::render_pass::render_map() { }
render_map ==
    /\ pass_state = "BandwidthRendered"
    /\ advance_pass
    /\ UNCHANGED <<ingest_vars, fixed_vars, surface, cr, render_calls,
                   end_of_content, drawn, header, dual>>

render_packetfall ==
    /\ pass_state = "MapPlaceholder"
    /\ advance_pass
    /\ drawn' = Append(drawn, Drawn("pfall", end_of_content))
    /\ end_of_content' = end_of_content
           + Scale * bandwidth_histogram_height * histogram_pad_factor_y
    /\ UNCHANGED <<ingest_vars, fixed_vars, surface, cr, render_calls,
                   header, dual>>

render_address_histograms(hh, rows) ==
    /\ pass_state = "WaterfallRendered"
    /\ advance_pass
    /\ LET st == dual_histograms(end_of_content, drawn, "src_addr_histogram",
                                 "dst_addr_histogram", TopOf(Len(src_tree)),
                                 TopOf(Len(dst_tree)), hh, rows)
       IN  /\ end_of_content' = st[1]
           /\ drawn' = st[2]
           /\ dual' = st[3]
    /\ UNCHANGED <<ingest_vars, fixed_vars, surface, cr, render_calls, header>>

render_port_histograms(hh, rows) ==
    /\ pass_state = "AddressHistogramsRendered"
    /\ advance_pass
    /\ LET st == dual_histograms(end_of_content, drawn, "src_port_histogram",
                                 "dst_port_histogram", TopOf(src_port_histogram),
                                 TopOf(dst_port_histogram), hh, rows)
       IN  /\ end_of_content' = st[1]
           /\ drawn' = st[2]
           /\ dual' = st[3]
    /\ UNCHANGED <<ingest_vars, fixed_vars, surface, cr, render_calls, header>>

\* the context destroyed and the surface leaked
render_cleanup_leak ==
    /\ pass_state = "PortHistogramsRendered"
    /\ pass_state' = next_pass_state(pass_state)
    /\ visited' = Append(visited, next_pass_state(pass_state))
    /\ cr' = "destroyed"
    /\ render_calls' = render_calls + 1
    /\ UNCHANGED <<ingest_vars, fixed_vars, end_of_content, drawn, surface,
                   header, dual>>

\* cairo_destroy(cr); cairo_surface_destroy(surface); and render() returns
render_cleanup ==
    /\ pass_state = "PortHistogramsRendered"
    /\ advance_pass
    /\ cr' = "destroyed"
    /\ surface' = "destroyed"
    /\ render_calls' = render_calls + 1
    /\ UNCHANGED <<ingest_vars, fixed_vars, end_of_content, drawn, header, dual>>

\* the size formatting of render_header applied to the byte_count of args
size_suffix_apply ==
    /\ args.fn = "size_suffix"
    /\ ~args.applied
    /\ args' = [args EXCEPT !.applied = TRUE]
    /\ header' = header_stats(args.byte_count, args.cast, transport_counts)
    /\ UNCHANGED <<ingest_vars, cairo_available, pass_state, surface, cr,
                   end_of_content, visited, drawn, render_calls, dual>>

\* the body shared by render_address_histograms and render_port_histograms
\* applied to the lists and measures of args
dual_histograms_apply ==
    /\ args.fn = "dual_histograms"
    /\ ~args.applied
    /\ args' = [args EXCEPT !.applied = TRUE]
    /\ LET st == dual_histograms(args.entry, <<>>, "src_port_histogram",
                                 "dst_port_histogram", args.left, args.right,
                                 args.heights, args.rows)
       IN  /\ end_of_content' = st[1]
           /\ drawn' = st[2]
           /\ dual' = st[3]
    /\ UNCHANGED <<ingest_vars, cairo_available, pass_state, surface, cr,
                   visited, render_calls, header>>

\* ------------------------------------------------------------ specification
InitState ==
    /\ ingested = <<>>
    /\ packet_count = 0
    /\ byte_count = 0
    /\ earliest = [tv_sec |-> 0, tv_usec |-> 0]
    /\ latest = [tv_sec |-> 0, tv_usec |-> 0]
    /\ transport_counts = <<>>
    /\ src_tree = <<>>
    /\ dst_tree = <<>>
    /\ bandwidth_histogram = <<>>
    /\ src_port_histogram = 0
    /\ dst_port_histogram = 0
    /\ pfall = 0
    /\ calls = <<>>
    /\ pass_state = "NoPass"
    /\ surface = "none"
    /\ cr = "none"
    /\ end_of_content = 0
    /\ visited = <<>>
    /\ drawn = <<>>
    /\ render_calls = 0
    /\ header = NoHeader
    /\ dual = NoDual

Init ==
    /\ InitState
    /\ cairo_available \in BOOLEAN
    /\ args = NoArgs

Next ==
    \/ \E pi \in Packets : ingest_packet(pi)
    \/ render_unavailable
    \/ \E created \in BOOLEAN : render_begin(created)
    \/ \E hs \in HeaderMeasures(surface), cast \in CastOfNegInf :
          render_header(hs, cast)
    \/ render_bandwidth_histogram
    \/ render_map
    \/ render_packetfall
    \/ \E hh \in HistHeights, rows \in RowMeasures(surface) :
          render_address_histograms(hh, rows)
    \/ \E hh \in HistHeights, rows \in RowMeasures(surface) :
          render_port_histograms(hh, rows)
    \/ render_cleanup

Spec == Init /\ [][Next]_vars

\* the functions of the layout applied on their own to the arguments of args
InitFn ==
    /\ InitState
    /\ cairo_available = TRUE
    /\ args \in FnArgs

NextFn ==
    \/ size_suffix_apply
    \/ dual_histograms_apply

SpecFn == InitFn /\ [][NextFn]_vars

\* ------------------------------------------------------- claims: helpers
RECURSIVE SumValues(_)
SumValues(m) ==
    IF DOMAIN m = {} THEN 0
    ELSE LET k == CHOOSE x \in DOMAIN m : TRUE
         IN  m[k] + SumValues([x \in DOMAIN m \ {k} |-> m[x]])

RECURSIVE SumCaplen(_)
SumCaplen(ps) ==
    IF ps = <<>> THEN 0 ELSE Head(ps).caplen + SumCaplen(Tail(ps))

\* what a packet decodes as, by the decoders alone
DecodesIp4(pi) == ip4_from_bytes(pi.ip_data, pi.ip_datalen)

DecodesIp6(pi) == ~DecodesIp4(pi) /\ ip6_from_bytes(pi.ip_data, pi.ip_datalen)

DecodesIp(pi) == DecodesIp4(pi) \/ DecodesIp6(pi)

DecodesTcp(pi) ==
    \/ DecodesIp4(pi) /\ tcp_from_bytes(pi.ip_datalen - IP4_HDR_LEN)
    \/ DecodesIp6(pi) /\ tcp_from_bytes(pi.ip_datalen - IP6_HDR_LEN)

\* the address sizes a tree has been given after the packets ps
RECURSIVE ExpectedAdds(_)
ExpectedAdds(ps) ==
    IF ps = <<>> THEN <<>>
    ELSE (IF DecodesIp6(Head(ps)) THEN <<IP6_ADDR_LEN>>
          ELSE IF DecodesIp4(Head(ps)) THEN <<IP4_ADDR_LEN>>
          ELSE <<>>) \o ExpectedAdds(Tail(ps))

CountOf(ps, Test(_)) == Len(SelectSeq(ps, Test))

LastPacket == ingested[Len(ingested)]

\* ------------------------------------------------------------------ C1
\* C1: after any sequence of ingest_packet calls the values of
\* transport_counts sum to packet_count.
C1_TransportSum ==
    SumValues(transport_counts) = packet_count

\* two packets with two different tags have been counted
C1_Witness ==
    /\ packet_count = 2
    /\ Cardinality(DOMAIN transport_counts) = 2
    /\ pass_state = "NoPass"

\* ------------------------------------------------------------------ C2
\* C2: packet_count is the number of ingest_packet calls and byte_count the
\* sum of the captured lengths of the packets ingested, decodable or not, and
\* neither counter ever decreases.
C2_Counters ==
    /\ [](packet_count = Len(ingested) /\ byte_count = SumCaplen(ingested))
    /\ [][packet_count' >= packet_count /\ byte_count' >= byte_count]_vars

\* a packet that decodes as nothing and a packet of another captured length
C2_Witness ==
    /\ Len(ingested) = 2
    /\ ~DecodesIp(ingested[1])
    /\ ingested[2].caplen # ingested[1].caplen
    /\ byte_count = ingested[1].caplen + ingested[2].caplen

\* ------------------------------------------------------------------ C3
\* C3: for every non-empty sequence of packets earliest is the timestamp of
\* the first packet ingested, whatever that timestamp is (a whole-second
\* component of 0 included) and whatever the later timestamps are.
C3_EarliestIsFirst ==
    Len(ingested) > 0 => earliest = ingested[1].ts

\* ------------------------------------------------------------------ C4
\* C4: latest starts at (0,0), and an ingest_packet call replaces it by the
\* packet's timestamp exactly when tv_sec and tv_usec of the packet are both
\* strictly greater than those of latest; in every other case it is kept.
C4_LatestPolicy ==
    /\ [](ingested = <<>> => latest = [tv_sec |-> 0, tv_usec |-> 0])
    /\ [][Len(ingested') = Len(ingested) + 1 =>
            LET ts == ingested'[Len(ingested')].ts
            IN  IF ts.tv_sec > latest.tv_sec /\ ts.tv_usec > latest.tv_usec
                THEN latest' = ts
                ELSE latest' = latest]_vars

\* the second packet has greater seconds and microseconds that are not
\* greater, and latest is still the first packet's timestamp
C4_Witness ==
    /\ Len(ingested) = 2
    /\ ingested[1].ts.tv_sec > 0
    /\ latest = ingested[1].ts
    /\ ingested[2].ts.tv_sec > latest.tv_sec
    /\ ingested[2].ts.tv_usec <= latest.tv_usec

\* ------------------------------------------------------------------ C5
\* C5: each packet adds one 16-byte address to each tree if it decodes as
\* IPv6, one 4-byte address to each tree if it decodes as IPv4, and nothing
\* otherwise; the insertions into either tree number the IP-decoded packets.
C5_TreeAdds ==
    /\ src_tree = ExpectedAdds(ingested)
    /\ dst_tree = ExpectedAdds(ingested)
    /\ Len(src_tree) = CountOf(ingested, DecodesIp)
    /\ Len(dst_tree) = CountOf(ingested, DecodesIp)

\* an IPv6 packet and a packet that is not IP: one 16-byte insertion each
C5_Witness ==
    /\ Len(ingested) = 2
    /\ DecodesIp6(ingested[1])
    /\ ~DecodesIp(ingested[2])
    /\ src_tree = <<IP6_ADDR_LEN>>
    /\ dst_tree = <<IP6_ADDR_LEN>>
    /\ packet_count = 2

\* ------------------------------------------------------------------ C6
Children ==
    {"src_tree", "dst_tree", "bandwidth_histogram", "src_port_histogram",
     "dst_port_histogram", "pfall"}

CallsTo(names) == SelectSeq(calls, LAMBDA c : c.to \in names)

\* C6 as claimed: a TCP decode is attempted only on the payload of a decoded
\* IP datagram, so the ingest_packet of a packet that is neither IPv4 nor IPv6
\* makes no call of tcp_from_bytes.
C6_TcpDecodeOnlyForIp ==
    (Len(ingested) > 0 /\ pass_state = "NoPass" /\ ~DecodesIp(LastPacket))
        => CallsTo({"tcp_from_bytes"}) = <<>>

\* C6 as amended: a packet that decodes as neither IPv4 nor IPv6 is counted,
\* the TCP decode is still attempted, on a payload of length 0, and fails, so
\* neither port histogram receives anything and the bandwidth histogram
\* receives the packet with a null TCP segment; the port histograms hold as
\* many segments as packets decoded as TCP over IP.
C6_NonIpNotRouted ==
    /\ src_port_histogram = CountOf(ingested, DecodesTcp)
    /\ dst_port_histogram = CountOf(ingested, DecodesTcp)
    /\ (Len(ingested) > 0 /\ ~DecodesIp(LastPacket)) =>
          /\ packet_count = Len(ingested)
          /\ byte_count = SumCaplen(ingested)
          /\ LastPacket.ether_type \in DOMAIN transport_counts
          /\ transport_counts[LastPacket.ether_type] >= 1
          /\ CallsTo({"tcp_from_bytes"}) = <<Call("tcp_from_bytes", 0)>>
          /\ CallsTo(Children) =
                 <<Call("bandwidth_histogram", 0), Call("pfall", 0)>>

\* a packet tagged IPv4 whose bytes decode as nothing, after a TCP packet
C6_Witness ==
    /\ Len(ingested) = 2
    /\ DecodesTcp(ingested[1])
    /\ ~DecodesIp(ingested[2])
    /\ ingested[2].ip_datalen >= TCP_HDR_LEN
    /\ src_port_histogram = 1
    /\ bandwidth_histogram = <<1, 0>>

\* ------------------------------------------------------------------ C7
Rank(to) ==
    CASE to \in {"src_tree", "dst_tree"} -> 1
      [] to = "bandwidth_histogram" -> 2
      [] to \in {"src_port_histogram", "dst_port_histogram"} -> 3
      [] to = "pfall" -> 4

\* C7: every ingest_packet forwards the packet once to the bandwidth
\* histogram and once to the waterfall, and once to each port histogram
\* exactly when a TCP segment was decoded, in the order trees, bandwidth
\* histogram, port histograms, waterfall; so the bandwidth histogram and the
\* waterfall hold packet_count packets and both port histograms the number of
\* TCP-decoded packets.
C7_Forwarding ==
    /\ Len(bandwidth_histogram) = packet_count
    /\ pfall = packet_count
    /\ src_port_histogram = dst_port_histogram
    /\ src_port_histogram = CountOf(ingested, DecodesTcp)
    /\ Len(ingested) > 0 =>
          LET cs == CallsTo(Children)
              n_port == IF DecodesTcp(LastPacket) THEN 1 ELSE 0
          IN  /\ Len(CallsTo({"bandwidth_histogram"})) = 1
              /\ Len(CallsTo({"pfall"})) = 1
              /\ Len(CallsTo({"src_port_histogram"})) = n_port
              /\ Len(CallsTo({"dst_port_histogram"})) = n_port
              /\ CallsTo({"bandwidth_histogram"})[1].arg = n_port
              /\ \A i, j \in 1..Len(cs) :
                    i < j => Rank(cs[i].to) <= Rank(cs[j].to)

\* a packet that went to all six children, after one that went to two
C7_Witness ==
    /\ Len(ingested) = 2
    /\ ~DecodesIp(ingested[1])
    /\ DecodesTcp(ingested[2])
    /\ Len(CallsTo(Children)) = 6
    /\ src_port_histogram = 1
    /\ pfall = 2

\* ------------------------------------------------------------------ C8
\* C8: render() leaves the aggregate as ingestion left it; in particular the
\* keys of transport_counts are the ethertypes that occurred in a packet.
C8_RenderReadOnly ==
    /\ packet_count = Len(ingested)
    /\ byte_count = SumCaplen(ingested)
    /\ DOMAIN transport_counts =
           {ingested[i].ether_type : i \in 1..Len(ingested)}

\* ------------------------------------------------------------------ C9
FullPass ==
    <<"NotStarted", "HeaderRendered", "BandwidthRendered", "MapPlaceholder",
      "WaterfallRendered", "AddressHistogramsRendered",
      "PortHistogramsRendered", "Done">>

\* C9: a render pass goes through NotStarted, HeaderRendered,
\* BandwidthRendered, MapPlaceholder, WaterfallRendered,
\* AddressHistogramsRendered, PortHistogramsRendered, Done in that order, each
\* once, whatever was aggregated; a step starts from the cursor the step
\* before it left, so nothing it draws lies above that cursor and a block is
\* drawn at it.
C9_PassOrder ==
    /\ [](/\ Len(visited) <= Len(FullPass)
          /\ visited = SubSeq(FullPass, 1, Len(visited))
          /\ pass_state = (IF visited = <<>> THEN "NoPass"
                           ELSE visited[Len(visited)])
          /\ render_calls = 1 /\ cairo_available => visited = FullPass)
    /\ [][(pass_state' # pass_state /\ pass_state # "NoPass") =>
            /\ Len(visited') = Len(visited) + 1
            /\ Len(drawn') >= Len(drawn)
            /\ SubSeq(drawn', 1, Len(drawn)) = drawn
            /\ \A i \in (Len(drawn) + 1)..Len(drawn') :
                  drawn'[i].y >= end_of_content
            /\ (pass_state \in {"HeaderRendered", "MapPlaceholder",
                                "WaterfallRendered",
                                "AddressHistogramsRendered"}) =>
                  /\ Len(drawn') > Len(drawn)
                  /\ drawn'[Len(drawn) + 1].y = end_of_content]_vars

\* a pass over an aggregate that no packet went into, come to its end
C9_Witness ==
    /\ pass_state = "Done"
    /\ visited = FullPass
    /\ packet_count = 0

\* ------------------------------------------------------------------ C10
Running ==
    {"NotStarted", "HeaderRendered", "BandwidthRendered", "MapPlaceholder",
     "WaterfallRendered", "AddressHistogramsRendered", "PortHistogramsRendered"}

\* C10 as claimed: when the surface cannot be created the render pass is
\* skipped: no step executes, nothing is drawn, the cursor stays where it was.
C10_FailedSurfaceSkipsPass ==
    surface = "error" =>
        /\ pass_state = "NotStarted"
        /\ drawn = <<>>
        /\ end_of_content = 0

\* C10 as amended: the surface and the context exist exactly while the pass
\* runs and are destroyed when render() returns; in a build without the
\* drawing backend render() does nothing at all (no pass, no drawing call, no
\* cursor movement, no surface); when the backend is there and the surface
\* cannot be created, render() does not look at the failure and the pass runs
\* in full, all steps in order, before the surface is released.
C10_SurfaceBracketsPass ==
    /\ (surface \in {"ok", "error"}) <=> (pass_state \in Running)
    /\ (cr = "created") <=> (pass_state \in Running)
    /\ pass_state = "Done" =>
          surface = "destroyed" /\ cr = "destroyed" /\ render_calls = 1
    /\ (render_calls = 1 /\ cairo_available) =>
          pass_state = "Done" /\ visited = FullPass
    /\ ~cairo_available =>
          /\ pass_state = "NoPass"
          /\ surface = "none"
          /\ cr = "none"
          /\ visited = <<>>
          /\ drawn = <<>>
          /\ end_of_content = 0
    /\ (surface = "error" /\ pass_state = "PortHistogramsRendered") =>
          /\ visited = SubSeq(FullPass, 1, 7)
          /\ end_of_content > 0
          /\ \E i \in 1..Len(drawn) : drawn[i].what = "pfall"

\* the pass over a surface that could not be created, before the cleanup
C10_Witness ==
    /\ surface = "error"
    /\ pass_state = "PortHistogramsRendered"
    /\ Len(visited) = 7
    /\ end_of_content > 0

\* ------------------------------------------------------------------ C11
DualApplied == args.fn = "dual_histograms" /\ args.applied

HistogramBlocks ==
    SelectSeq(drawn, LAMBDA d : d.what \in {"src_addr_histogram",
                  "dst_addr_histogram", "src_port_histogram",
                  "dst_port_histogram"})

\* C11: the step that draws two histograms side by side draws both at the
\* cursor it was entered with, and then moves the cursor by the larger of the
\* two heights the histograms were rendered with, not by their sum, and not by
\* the height asked for when the rendered heights differ from it; the first
\* row of the top-N lists starts there.
C11_SameOffsetLargerHeight ==
    DualApplied =>
        /\ dual.entry = args.entry
        /\ Len(HistogramBlocks) = 2
        /\ HistogramBlocks[1].y = args.entry
        /\ HistogramBlocks[2].y = args.entry
        /\ dual.below =
               args.entry + Scale * Max(args.heights.left, args.heights.right)
        /\ dual.rows[1].before = dual.below

\* the left histogram rendered 80 high and the right one 65 high, at a cursor
\* that is not the top of the page
C11_Witness ==
    /\ DualApplied
    /\ args.entry > 0
    /\ args.heights = [left |-> 80, right |-> 65]
    /\ dual.below = args.entry + Scale * 80

\* ------------------------------------------------------------------ C12
\* C12: in row i (0-based) of the top-N lists a side shows an entry exactly
\* when its list has more than i entries; the entry has rank i + 1 and the
\* percentage 0 when the total of its histogram is 0 and otherwise
\* floor(100 * count / total), which lies in 0..100.
C12_TopNEntries ==
    DualApplied =>
        /\ Len(dual.rows) = histogram_show_top_n_text
        /\ \A r \in 1..Len(dual.rows) :
              \A side \in {<<dual.rows[r].left, args.left>>,
                           <<dual.rows[r].right, args.right>>} :
                 LET entry == side[1]
                     list == side[2].list
                     sum == side[2].sum
                 IN  /\ entry.present <=> Len(list) > r - 1
                     /\ entry.present =>
                           /\ entry.rank = r
                           /\ entry.count = list[r]
                           /\ entry.percentage \in 0..100
                           /\ entry.percentage =
                                  (IF sum = 0 THEN 0
                                   ELSE (100 * entry.count) \div sum)

\* ------------------------------------------------------------------ C13
\* C13: every percentage of the render pass is guarded against a denominator
\* of 0 and is 0% then; the header of an aggregate without packets shows
\* IPv4, IPv6, ARP and Other as 0%, and no share is the result of a division
\* by zero.
C13_ZeroDenominatorGuarded ==
    /\ header.rendered =>
          \A s \in {header.shares.ipv4, header.shares.ipv6,
                    header.shares.arp, header.shares.other} :
             /\ ~s.nan
             /\ header.transport_total = 0 => s.num = 0
    /\ \A r \in 1..Len(dual.rows) :
          \A entry \in {dual.rows[r].left, dual.rows[r].right} :
             entry.percentage \in 0..100

\* ------------------------------------------------------------------ C14
SizeSuffixApplied == args.fn = "size_suffix" /\ args.applied

PowersOf1000 ==
    <<<<0, 0, 1000>>, <<0, 0, 1000000>>, <<0, 1, 0>>, <<0, 1000, 0>>,
      <<0, 1000000, 0>>, <<1, 0, 0>>>>

\* floor(log_1000(w)) of a byte count of 1 or more
FloorLog1000(w) ==
    Cardinality({k \in 1..Len(PowersOf1000) : ~WideLess(w, PowersOf1000[k])})

\* C14: for every byte_count of 64 bits the index of the size suffix is
\* floor(log_1000(byte_count)), and 0 for a byte_count of 0; it is one of
\* 0..6 and selects B, KB, MB, GB, TB, PB, EB in that order: B below 1000, KB
\* for 1500, MB for 1,000,000.
C14_SuffixIndex ==
    SizeSuffixApplied =>
        /\ header.suffix_index \in 0..6
        /\ header.suffix = size_suffixes[header.suffix_index + 1]
        /\ header.suffix_index =
               (IF args.byte_count = <<0, 0, 0>> THEN 0
                ELSE FloorLog1000(args.byte_count))

\* ------------------------------------------------------------------ C15
\* C15: a row of the top-N lists moves the cursor by 1.5 times the larger of
\* the heights measured for the left and the right entry of that row, a side
\* without an entry counting as 0: the advance depends on the texts drawn in
\* the row and on nothing else.
C15_RowAdvance ==
    DualApplied =>
        \A r \in 1..Len(dual.rows) :
           dual.rows[r].after - dual.rows[r].before =
               (3 * Scale * Max(dual.rows[r].left.height,
                                dual.rows[r].right.height)) \div 2

\* ------------------------------------------------------------------ C16
BlockOffsets(what) ==
    {drawn[i].y : i \in {n \in 1..Len(drawn) : drawn[n].what = what}}

\* C16: render_map draws nothing, leaves the cursor where it is and leaves the
\* aggregate as it is, so the waterfall is drawn at the offset the bandwidth
\* histogram left the cursor at.
C16_MapIsNoOp ==
    /\ [][pass_state = "BandwidthRendered" /\ pass_state' # pass_state =>
            /\ pass_state' = "MapPlaceholder"
            /\ drawn' = drawn
            /\ end_of_content' = end_of_content
            /\ ingest_vars' = ingest_vars
            /\ header' = header]_vars
    /\ [](\A y \in BlockOffsets("pfall") :
             \E b \in BlockOffsets("bandwidth_histogram") :
                y = b + Scale * bandwidth_histogram_height
                        * histogram_pad_factor_y)

\* the waterfall of two packets drawn, after the placeholder
C16_Witness ==
    /\ pass_state = "WaterfallRendered"
    /\ packet_count = 2
    /\ BlockOffsets("pfall") # {}
    /\ end_of_content > 2 * Scale * bandwidth_histogram_height

\* ------------------------------------------------------------------ C17
IsOtherTransport(pi) ==
    pi.ether_type \notin {ETHERTYPE_IP, ETHERTYPE_IPV6, ETHERTYPE_ARP}

\* C17: when the total of the transport counts is positive, the share of
\* Other in the header is the complement of the shares of IPv4, IPv6 and ARP,
\* which is the share of the packets whose ethertype is none of the three;
\* the four shares add up to the whole of the total, and the total is
\* packet_count.
C17_OtherIsComplement ==
    (header.rendered /\ args.fn = "none" /\ header.transport_total > 0) =>
        LET sh == header.shares
        IN  /\ header.transport_total = packet_count
            /\ \A s \in {sh.ipv4, sh.ipv6, sh.arp, sh.other} :
                  ~s.nan /\ s.den = packet_count
            /\ sh.other.num = CountOf(ingested, IsOtherTransport)
            /\ sh.other.num = sh.other.den - (sh.ipv4.num + sh.ipv6.num + sh.arp.num)
            /\ sh.ipv4.num + sh.ipv6.num + sh.arp.num + sh.other.num
                  = header.transport_total

\* the header of an ARP packet and a packet of another ethertype
C17_Witness ==
    /\ header.rendered
    /\ packet_count = 2
    /\ header.shares.arp.num = 1
    /\ header.shares.other.num = 1
    /\ header.shares.other.den = 2

\* ------------------------------------------------------------------ C18
Before(a, b) ==
    a.tv_sec < b.tv_sec \/ (a.tv_sec = b.tv_sec /\ a.tv_usec < b.tv_usec)

\* C18: once earliest holds a timestamp whose tv_sec is not 0, no later
\* ingest_packet changes it.
C18_EarliestFrozen ==
    [][earliest.tv_sec # 0 => earliest' = earliest]_vars

\* a second packet that is earlier than the first, and earliest still the first
C18_Witness ==
    /\ Len(ingested) = 2
    /\ ingested[1].ts.tv_sec # 0
    /\ Before(ingested[2].ts, ingested[1].ts)
    /\ earliest = ingested[1].ts

\* ------------------------------------------------------------------ C19
\* C19: latest is (0,0) or the timestamp, both components of it, of one
\* packet ingested before, never a mix of two packets, and neither of its
\* components ever decreases.
C19_LatestIsOnePacket ==
    /\ [](\/ latest = [tv_sec |-> 0, tv_usec |-> 0]
          \/ \E i \in 1..Len(ingested) : ingested[i].ts = latest)
    /\ [][/\ latest'.tv_sec >= latest.tv_sec
          /\ latest'.tv_usec >= latest.tv_usec]_vars

\* two packets of which each has one component greater than the other's:
\* latest is the first one, not the greater components of the two
C19_Witness ==
    /\ Len(ingested) = 2
    /\ ingested[1].ts.tv_sec > 0
    /\ ingested[1].ts.tv_usec > ingested[2].ts.tv_usec
    /\ ingested[1].ts.tv_sec < ingested[2].ts.tv_sec
    /\ latest = ingested[1].ts

\* ------------------------------------------------------------------ C20
\* C20: during a render pass the cursor never decreases: with text heights
\* and block heights that are not negative every step, and every row of the
\* top-N lists, leaves it at or below where it found it.
C20_CursorMonotone ==
    [][(pass_state \in Running /\ pass_state' \in Running \cup {"Done"}) =>
          (/\ end_of_content' >= end_of_content
           /\ \A r \in 1..Len(dual'.rows) :
                 (dual'.rows[r]).after >= (dual'.rows[r]).before)]_vars

====
